---- MODULE Spec2Model ----
(***************************************************************************)
(* Model of the OCRV server's arithmetic reconciliation                    *)
(* (src/server/index.js: toNumber, round2, approxEqual, reconcileMath).    *)
(*                                                                         *)
(* JavaScript values are records tagged by t:                              *)
(*   [t |-> "null"], [t |-> "undefined"], [t |-> "boolean"],               *)
(*   [t |-> "string", s |-> <<characters>>],                               *)
(*   [t |-> "nonfinite"]              a number that is NaN or +-Infinity   *)
(*   [t |-> "number", v |-> n, d |-> m]   the finite number n/m thousandths*)
(*   [t |-> "object", ...], [t |-> "array", items |-> <<...>>].            *)
(* Finite numbers are exact rationals in lowest terms with m > 0, so that  *)
(* products and quotients are exact before round2 cuts them to cents.      *)
(* Every number the program stores is a whole number of thousandths        *)
(* (m = 1): the inputs are drawn that way, round2 yields whole cents and   *)
(* Math.round yields integers.  The doubles' representation error is not   *)
(* modelled: the model computes what the code computes on exact decimals.  *)
(***************************************************************************)
EXTENDS Integers, Sequences, FiniteSets, TLC

VARIABLES
    input,       \* the record as parsed from the collaborator's JSON (kept for reference)
    structured,  \* the record object reconcileMath mutates in place
    results,     \* the value returned by each completed call of reconcileMath
    pc,          \* "parsed", "reconciled" or "threw"
    t1,          \* canvasToOcrText: the text kept from pass 1
    t2,          \* canvasToOcrText: the text kept from pass 2
    best,        \* canvasToOcrText: the text it returns
    scorePc,     \* canvasToOcrText: "start", "pass1", "pass2" or "returned"
    workerPromise, \* the cached promise of getWorker: 0 for null, else its number
    engines,     \* the engines started by createWorker, in order
    docs,        \* the invocations of ocrAny
    teardowns,   \* the invocations of terminateOcrWorker
    vocabulary,  \* the results worker.recognize may resolve to
    request,     \* POST /api/structure: req.body and the environment it is served in
    completion,  \* the content the collaborator answered with
    response,    \* the response sent, status 0 while there is none
    calls,       \* how often groq.chat.completions.create was called
    routePc,     \* "received", "awaiting", "responded" or "failed"
    canvas,      \* preprocessCanvas: the ImageData of the scaled canvas and the options
    binarized,   \* preprocessCanvas: what the canvas held after line 101
    imgPc        \* preprocessCanvas: "drawn", "binarized" or "returned"

recVars == <<input, structured, results, pc>>
scoreVars == <<t1, t2, best, scorePc>>
ocrVars == <<workerPromise, engines, docs, teardowns, vocabulary>>
routeVars == <<request, completion, response, calls, routePc>>
imgVars == <<canvas, binarized, imgPc>>
vars == <<recVars, scoreVars, ocrVars, routeVars, imgVars>>
notRec == <<scoreVars, ocrVars, routeVars, imgVars>>
notScore == <<recVars, ocrVars, routeVars, imgVars>>
notOcr == <<recVars, scoreVars, routeVars, imgVars>>
notRoute == <<recVars, scoreVars, ocrVars, imgVars>>
notImg == <<recVars, scoreVars, ocrVars, routeVars>>

\* the parts of the program that are at rest while another part is checked
ScoreIdle == t1 = <<>> /\ t2 = <<>> /\ best = <<>> /\ scorePc = "idle"
RecIdle == input = <<>> /\ structured = <<>> /\ results = <<>> /\ pc = "idle"
OcrIdle ==
    /\ workerPromise = 0 /\ engines = <<>> /\ docs = <<>> /\ teardowns = <<>>
    /\ vocabulary = {}
RouteIdle ==
    /\ request = <<>> /\ completion = <<>> /\ response = <<>> /\ calls = 0
    /\ routePc = "idle"
ImgIdle == canvas = <<>> /\ binarized = <<>> /\ imgPc = "idle"

(***************************************************************************)
(* Fixed-point units.                                                      *)
(***************************************************************************)
Hundred == 100                 \* round2 keeps 1/100ths
One == 10 * Hundred            \* the number 1, in thousandths
Cent == One \div Hundred       \* the number 0.01, in thousandths

(***************************************************************************)
(* Exact arithmetic on JavaScript numbers.                                 *)
(***************************************************************************)
Abs(n) == IF n < 0 THEN -n ELSE n

RECURSIVE Gcd(_, _)
Gcd(a, b) == IF b = 0 THEN a ELSE Gcd(b, a % b)

JsNull == [t |-> "null"]
JsUndefined == [t |-> "undefined"]
JsBoolean == [t |-> "boolean"]
JsNonFinite == [t |-> "nonfinite"]
JsStr(s) == [t |-> "string", s |-> s]

\* The finite number n/m thousandths, m # 0, in lowest terms.
Ratio(n, m) ==
    LET g == Gcd(Abs(n), Abs(m))
        sg == IF m < 0 THEN -1 ELSE 1
    IN  [t |-> "number", v |-> sg * (n \div g), d |-> sg * (m \div g)]

JsNum(v) == [t |-> "number", v |-> v, d |-> 1]

IsFinite(x) == x.t = "number"

JsAdd(a, b) ==
    IF IsFinite(a) /\ IsFinite(b)
    THEN Ratio(a.v * b.d + b.v * a.d, a.d * b.d)
    ELSE JsNonFinite

JsSub(a, b) ==
    IF IsFinite(a) /\ IsFinite(b)
    THEN Ratio(a.v * b.d - b.v * a.d, a.d * b.d)
    ELSE JsNonFinite

\* (n1/d1) * (n2/d2), cancelling across before multiplying
MulRatios(n1, d1, n2, d2) ==
    LET g1 == Gcd(Abs(n1), Abs(d2))
        g2 == Gcd(Abs(n2), Abs(d1))
    IN  Ratio((n1 \div g1) * (n2 \div g2), (d1 \div g2) * (d2 \div g1))

JsMul(a, b) ==
    IF IsFinite(a) /\ IsFinite(b)
    THEN MulRatios(a.v, a.d, b.v, b.d * One)
    ELSE JsNonFinite

\* x / 0 is NaN or +-Infinity
JsDiv(a, b) ==
    IF IsFinite(a) /\ IsFinite(b) /\ b.v # 0
    THEN MulRatios(a.v, a.d, b.d * One, b.v)
    ELSE JsNonFinite

JsAbs(a) == IF IsFinite(a) THEN [a EXCEPT !.v = Abs(a.v)] ELSE a

\* a < b and a <= b; a comparison with NaN is false
JsLt(a, b) == IsFinite(a) /\ IsFinite(b) /\ a.v * b.d < b.v * a.d
JsLe(a, b) == IsFinite(a) /\ IsFinite(b) /\ a.v * b.d <= b.v * a.d

\* floor(p/q + 1/2) for q > 0: Math.round rounds halves towards +Infinity
RoundHalfUp(p, q) == (2 * p + q) \div (2 * q)

MathRound(x) ==
    IF IsFinite(x) THEN JsNum(One * RoundHalfUp(x.v, x.d * One)) ELSE JsNonFinite

(***************************************************************************)
(* toNumber (src/server/index.js:49-60).                                   *)
(***************************************************************************)
Digits == <<"0", "1", "2", "3", "4", "5", "6", "7", "8", "9">>
DigitChars == {Digits[i] : i \in 1..Len(Digits)}
DigitValue(c) == (CHOOSE i \in 1..Len(Digits) : Digits[i] = c) - 1

\* String(x) for the values that are neither null, undefined nor a number
String(x) ==
    IF x.t = "string" THEN x.s
    ELSE IF x.t = "boolean" THEN <<"t", "r", "u", "e">>
    ELSE <<"[", "o", "b", "j", "e", "c", "t", " ", "O", "b", "j", "e", "c", "t", "]">>

\* .replace(/[, ]+/g, "").replace(/[^0-9.-]/g, "")
StripNonNumeric(s) ==
    LET noSep == SelectSeq(s, LAMBDA c : c \notin {",", " "})
    IN  SelectSeq(noSep, LAMBDA c : c \in DigitChars \cup {".", "-"})

Count(s, c) == Cardinality({i \in 1..Len(s) : s[i] = c})

RECURSIVE DigitsValue(_)
DigitsValue(s) ==
    IF s = <<>> THEN 0 ELSE 10 * DigitsValue(SubSeq(s, 1, Len(s) - 1)) + DigitValue(s[Len(s)])

\* The fraction digits as thousandths (digits beyond the third are below the
\* model's resolution; the inputs drawn have at most three).
FractionValue(s) ==
    LET digit(i) == IF i <= Len(s) THEN DigitValue(s[i]) ELSE 0
    IN  Hundred * digit(1) + 10 * digit(2) + digit(3)

\* Number(s) for a non-empty s over [0-9.-]: a signed decimal literal, or NaN
Number(s) ==
    LET neg == Head(s) = "-"
        body == IF neg THEN Tail(s) ELSE s
        dot == IF Count(body, ".") = 1
               THEN CHOOSE i \in 1..Len(body) : body[i] = "."
               ELSE Len(body) + 1
        whole == SubSeq(body, 1, dot - 1)
        frac == SubSeq(body, dot + 1, Len(body))
        mag == One * DigitsValue(whole) + FractionValue(frac)
    IN  IF Count(body, "-") = 0 /\ Count(body, ".") <= 1 /\ Len(whole) + Len(frac) > 0
        THEN JsNum(IF neg THEN -mag ELSE mag)
        ELSE JsNonFinite

toNumber(x) ==
    IF x.t \in {"null", "undefined"} THEN JsNull
    ELSE IF x.t \in {"number", "nonfinite"} THEN (IF IsFinite(x) THEN x ELSE JsNull)
    ELSE LET s == StripNonNumeric(String(x))
         IN  IF s = <<>> THEN JsNull
             ELSE LET n == Number(s) IN IF IsFinite(n) THEN n ELSE JsNull

(***************************************************************************)
(* round2 (62-65) and approxEqual (67-70).                                 *)
(***************************************************************************)
\* Math.round((n + Number.EPSILON) * 100) / 100: the nudge puts a decimal
\* half-cent on the upper side, so halves go towards +Infinity.
round2(n) ==
    IF n.t \in {"null", "undefined"} THEN JsNull
    ELSE IF IsFinite(n) THEN JsNum(Cent * RoundHalfUp(n.v, n.d * Cent))
    ELSE JsNonFinite

DefaultTol == 50               \* tol = 0.05, in thousandths

approxEqual(a, b, tol) ==
    IF a = JsNull \/ b = JsNull THEN FALSE
    ELSE JsLe(JsAbs(JsSub(a, b)), JsNum(tol))

(***************************************************************************)
(* reconcileMath (72-155).                                                 *)
(***************************************************************************)
FillQtyTol == 20               \* 0.02, line 100
FixQtyTol == 50                \* 0.05, line 110
FixAmountTol == 100            \* 0.1, line 110

\* x.f: a property of a primitive is undefined
Prop(x, f) == IF x.t = "object" THEN x[f] ELSE JsUndefined

\* it.f on null or undefined raises a TypeError
Throws(it) == it.t \in {"null", "undefined"}

\* x ?? null
OrNull(x) == IF x.t \in {"null", "undefined"} THEN JsNull ELSE x

\* FillAmount without the rounding of the product
FillAmount_Unrounded(i) ==
    IF i.amt = JsNull /\ i.qty # JsNull /\ i.unit # JsNull
    THEN [i EXCEPT !.amt = JsMul(i.qty, i.unit)]
    ELSE i

\* fill missing amount (line 90)
FillAmount(i) ==
    IF i.amt = JsNull /\ i.qty # JsNull /\ i.unit # JsNull
    THEN [i EXCEPT !.amt = round2(JsMul(i.qty, i.unit))]
    ELSE i

\* fill missing unit (lines 93-94)
FillUnit(i) ==
    IF i.unit = JsNull /\ i.qty # JsNull /\ i.amt # JsNull /\ i.qty # JsNum(0)
    THEN [i EXCEPT !.unit = round2(JsDiv(i.amt, i.qty))]
    ELSE i

\* FillQty always taking the nearest integer
FillQty_AlwaysInteger(i) ==
    IF i.qty = JsNull /\ i.unit # JsNull /\ i.amt # JsNull /\ i.unit # JsNum(0)
    THEN [i EXCEPT !.qty = MathRound(JsDiv(i.amt, i.unit))]
    ELSE i

\* fill missing qty, preferring an integer (lines 97-101)
FillQty(i) ==
    IF i.qty = JsNull /\ i.unit # JsNull /\ i.amt # JsNull /\ i.unit # JsNum(0)
    THEN LET q == JsDiv(i.amt, i.unit)
             qInt == MathRound(q)
         IN  [i EXCEPT !.qty = IF JsLt(JsAbs(JsSub(q, qInt)), JsNum(FillQtyTol))
                                THEN qInt
                                ELSE round2(q)]
    ELSE i

\* FixInconsistent without the integer-quantity retry
FixInconsistent_UnitOnly(i) ==
    IF i.qty # JsNull /\ i.unit # JsNull /\ i.amt # JsNull
       /\ ~approxEqual(round2(JsMul(i.qty, i.unit)), i.amt, DefaultTol)
       /\ i.qty # JsNum(0)
    THEN [i EXCEPT !.unit = round2(JsDiv(i.amt, i.qty))]
    ELSE i

\* FixInconsistent making the amount follow qty * unit as its last resort
FixInconsistent_AmountFollows(i) ==
    IF i.qty # JsNull /\ i.unit # JsNull /\ i.amt # JsNull
       /\ ~approxEqual(round2(JsMul(i.qty, i.unit)), i.amt, DefaultTol)
    THEN [i EXCEPT !.amt = round2(JsMul(i.qty, i.unit))]
    ELSE i

\* all three present but inconsistent (lines 104-117)
FixInconsistent(i) ==
    IF i.qty # JsNull /\ i.unit # JsNull /\ i.amt # JsNull
    THEN LET calc == round2(JsMul(i.qty, i.unit))
         IN  IF ~approxEqual(calc, i.amt, DefaultTol)
             THEN LET q == JsDiv(i.amt, i.unit)
                      qInt == MathRound(q)
                      calc2 == round2(JsMul(qInt, i.unit))
                  IN  IF JsLt(JsAbs(JsSub(q, qInt)), JsNum(FixQtyTol))
                         /\ approxEqual(calc2, i.amt, FixAmountTol)
                      THEN [i EXCEPT !.qty = qInt]
                      ELSE IF i.qty # JsNum(0)
                           THEN [i EXCEPT !.unit = round2(JsDiv(i.amt, i.qty))]
                           ELSE i
             ELSE i
    ELSE i

\* the callback of items.map (lines 84-126), for an item that does not throw
RepairItem(it) ==
    LET i0 == [qty |-> toNumber(Prop(it, "qty")),
               unit |-> round2(toNumber(Prop(it, "unit_price"))),
               amt |-> round2(toNumber(Prop(it, "amount")))]
        i == FixInconsistent(FillQty(FillUnit(FillAmount(i0))))
    IN  [t |-> "object",
         product_or_service |-> OrNull(Prop(it, "product_or_service")),
         description |-> OrNull(Prop(it, "description")),
         qty |-> i.qty,
         unit_price |-> i.unit,
         amount |-> i.amt]

\* NormalizeTop storing the tax rate as a fraction instead of a percentage
NormalizeTop_RateAsFraction(s) ==
    [s EXCEPT !.subtotal = round2(toNumber(s.subtotal)),
              !.tax_rate = JsDiv(toNumber(s.tax_rate), JsNum(Hundred * One)),
              !.tax_amount = round2(toNumber(s.tax_amount)),
              !.total = round2(toNumber(s.total))]

\* the four top-level numbers normalized (lines 75-78)
NormalizeTop(s) ==
    [s EXCEPT !.subtotal = round2(toNumber(s.subtotal)),
              !.tax_rate = toNumber(s.tax_rate),
              !.tax_amount = round2(toNumber(s.tax_amount)),
              !.total = round2(toNumber(s.total))]

\* the line items, [] if line_items is no array (lines 80-82)
ItemsOf(s) == IF s.line_items.t = "array" THEN s.line_items.items ELSE <<>>

\* toNumber(it.amount) || 0
AmountOrZero(it) ==
    LET n == toNumber(it.amount) IN IF n = JsNull \/ n = JsNum(0) THEN JsNum(0) ELSE n

\* structured.line_items.reduce((s, it) => s + (toNumber(it.amount) || 0), 0)
RECURSIVE SumAmounts(_)
SumAmounts(items) ==
    IF items = <<>> THEN JsNum(0)
    ELSE JsAdd(SumAmounts(SubSeq(items, 1, Len(items) - 1)), AmountOrZero(items[Len(items)]))

\* DeriveSubtotal writing a zero sum too
DeriveSubtotal_WritesZero(s) ==
    IF s.subtotal = JsNull
    THEN [s EXCEPT !.subtotal = round2(SumAmounts(s.line_items.items))]
    ELSE s

\* derive subtotal from items if missing (lines 129-132)
DeriveSubtotal(s) ==
    LET sumItems == round2(SumAmounts(s.line_items.items))
    IN  IF s.subtotal = JsNull /\ sumItems # JsNum(0)
        THEN [s EXCEPT !.subtotal = sumItems]
        ELSE s

\* DeriveTaxAmount taking the rate as a fraction
DeriveTaxAmount_RateAsFraction(s) ==
    IF s.tax_amount = JsNull /\ s.subtotal # JsNull /\ s.tax_rate # JsNull
    THEN [s EXCEPT !.tax_amount = round2(JsMul(s.subtotal, s.tax_rate))]
    ELSE s

\* derive tax amount if missing but have subtotal + rate (lines 135-143)
DeriveTaxAmount(s) ==
    IF s.tax_amount = JsNull /\ s.subtotal # JsNull /\ s.tax_rate # JsNull
    THEN [s EXCEPT !.tax_amount =
              round2(JsMul(s.subtotal, JsDiv(s.tax_rate, JsNum(Hundred * One))))]
    ELSE s

\* DeriveTotal without the test that total is still null
DeriveTotal_Overrides(s) ==
    IF s.subtotal # JsNull /\ s.tax_amount # JsNull
    THEN [s EXCEPT !.total = round2(JsAdd(s.subtotal, s.tax_amount))]
    ELSE s

\* derive total if missing (lines 146-152)
DeriveTotal(s) ==
    IF s.total = JsNull /\ s.subtotal # JsNull /\ s.tax_amount # JsNull
    THEN [s EXCEPT !.total = round2(JsAdd(s.subtotal, s.tax_amount))]
    ELSE s

\* The call reconcileMath(s): whether it throws, the value it returns, and
\* the object s as the call leaves it (s is mutated in place).
reconcileMath(s) ==
    IF s.t # "object"
    THEN [threw |-> FALSE, value |-> s, object |-> s]
    ELSE LET top == NormalizeTop(s)
             items == ItemsOf(top)
         IN  IF \E k \in 1..Len(items) : Throws(items[k])
             THEN [threw |-> TRUE, value |-> JsUndefined, object |-> top]
             ELSE LET mapped == [top EXCEPT !.line_items =
                                     [t |-> "array",
                                      items |-> [k \in 1..Len(items) |-> RepairItem(items[k])]]]
                      done == DeriveTotal(DeriveTaxAmount(DeriveSubtotal(mapped)))
                  IN  [threw |-> FALSE, value |-> done, object |-> done]

(***************************************************************************)
(* The records reconcileMath is applied to: what JSON.parse can hand it    *)
(* (src/server/index.js:236-237).  Numbers are written in thousandths.     *)
(* The values keep clear of exact decimal ties that the doubles decide by  *)
(* their representation error (a product on a half-cent such as            *)
(* 2.5 * 3.33, a distance of exactly 0.02 such as 15.01 / 0.5 - 30): on    *)
(* every record drawn here the code run on IEEE doubles returns the same   *)
(* values as reconcileMath below.                                          *)
(***************************************************************************)
MaxItems == 2                  \* longest line_items list
MaxQty == 3                    \* largest whole quantity
MaxPasses == 3                 \* reconcileMath is applied at most this often to one record

\* quantities: absent, null, 0..MaxQty, fractional ones, and strings
QtyInputs ==
    {JsUndefined, JsNull}
    \cup {JsNum(One * k) : k \in 0..MaxQty}
    \cup {JsNum(1998), JsNum(2500), JsNum(30200), JsNum(-1000)}
    \cup {JsStr(<<"3">>), JsStr(<<"x", "2">>), JsStr(<<"n", "/", "a">>)}

\* unit prices
UnitInputs ==
    {JsNull, JsNonFinite}
    \cup {JsNum(0), JsNum(2000), JsNum(4000), JsNum(5000), JsNum(7000), JsNum(10000),
          JsNum(100000), JsNum(3337)}
    \cup {JsStr(<<"$", "1", "0", ".", "0", "0">>), JsStr(<<"1", ".", "2", ".", "3">>)}

\* amounts
AmountInputs ==
    {JsNull, JsBoolean}
    \cup {JsNum(0), JsNum(10), JsNum(12500), JsNum(15010), JsNum(15020), JsNum(15090),
          JsNum(15100), JsNum(19980), JsNum(25000), JsNum(30000), JsNum(30080),
          JsNum(301000), JsNum(-10000), JsNum(125), JsNum(-125)}
    \cup {JsStr(<<"1", "5", ".", "0", "2">>), JsStr(<<"-">>)}

\* descriptive fields: absent, null, empty, non-empty
TextInputs == {JsUndefined, JsNull, JsStr(<<>>), JsStr(<<"W", "i", "d", "g", "e", "t">>)}

Item(p, d, q, u, a) ==
    [t |-> "object", product_or_service |-> p, description |-> d,
     qty |-> q, unit_price |-> u, amount |-> a]

Record(sub, rate, tax, tot, li) ==
    [t |-> "object", subtotal |-> sub, tax_rate |-> rate, tax_amount |-> tax,
     total |-> tot, line_items |-> li]

Array(items) == [t |-> "array", items |-> items]

\* one line item of any shape, nothing known at the top level
OneItemRecords ==
    {Record(JsUndefined, JsUndefined, JsUndefined, JsUndefined,
            Array(<<Item(pd[1], pd[2], q, u, a)>>)) :
        pd \in {<<JsUndefined, JsStr(<<>>)>>, <<JsNull, JsUndefined>>,
                <<JsStr(<<>>), JsStr(<<"W", "i", "d", "g", "e", "t">>)>>,
                <<JsStr(<<"W", "i", "d", "g", "e", "t">>), JsNull>>},
        q \in QtyInputs, u \in UnitInputs, a \in AmountInputs}

\* the line items of the records with several items: complete, incomplete,
\* inconsistent, a primitive, and null
ListItems ==
    {Item(JsNull, JsNull, JsNum(One), JsNum(10000), JsNum(10000)),
     Item(JsNull, JsNull, JsNull, JsNull, JsNum(5000)),
     Item(JsNull, JsNull, JsNum(One), JsNull, JsNum(-10000)),
     Item(JsNull, JsNull, JsNum(3 * One), JsNum(10000), JsNull),
     Item(JsNull, JsNull, JsNum(30200), JsNum(7000), JsNum(15010)),
     JsNum(5 * One),
     JsNull}

RECURSIVE SeqsUpTo(_, _)
SeqsUpTo(S, n) ==
    IF n = 0 THEN {<<>>}
    ELSE LET shorter == SeqsUpTo(S, n - 1)
         IN  shorter \cup {Append(s, x) : s \in {r \in shorter : Len(r) = n - 1}, x \in S}

SubtotalInputs == {JsNull, JsNum(100 * One), JsStr(<<"$", "1", ",", "2", "3", "4", ".", "5", "0">>)}
TaxRateInputs == {JsUndefined, JsNum(13 * One), JsStr(<<"1", "3", "%">>), JsNum(8250)}
TaxAmountInputs == {JsNull, JsNum(13 * One), JsNum(-125)}
TotalInputs == {JsNull, JsNum(113 * One), JsNum(120 * One), JsNum(125), JsNum(-125),
                JsStr(<<"t", "b", "d">>)}

ListRecords ==
    {Record(sub, rate, tax, tot, li) :
        sub \in SubtotalInputs, rate \in TaxRateInputs, tax \in TaxAmountInputs,
        tot \in TotalInputs,
        li \in {Array(items) : items \in SeqsUpTo(ListItems, MaxItems)} \cup {JsUndefined}}

\* JSON.parse("{}"), JSON.parse("null"), JSON.parse("5")
OtherRecords ==
    {Record(JsUndefined, JsUndefined, JsUndefined, JsUndefined, JsUndefined), JsNull, JsNum(5 * One)}

ParsedRecords == OneItemRecords \cup ListRecords \cup OtherRecords

(***************************************************************************)
(* The state machine: a parsed record is reconciled, and the returned      *)
(* record may be handed to reconcileMath again.                            *)
(***************************************************************************)
Init ==
    /\ input \in ParsedRecords
    /\ structured = input
    /\ results = <<>>
    /\ pc = "parsed"
    /\ ScoreIdle /\ OcrIdle /\ RouteIdle /\ ImgIdle

\* const reconciled = reconcileMath(parsed)  (line 237)
Reconcile ==
    /\ pc = "parsed"
    /\ \E r \in {reconcileMath(structured)} :
           /\ structured' = r.object
           /\ results' = IF r.threw THEN results ELSE Append(results, r.value)
           /\ pc' = IF r.threw THEN "threw" ELSE "reconciled"
    /\ UNCHANGED <<input, notRec>>

\* reconcileMath applied to a record it returned
ReconcileAgain ==
    /\ pc = "reconciled"
    /\ Len(results) < MaxPasses
    /\ \E r \in {reconcileMath(structured)} :
           /\ structured' = r.object
           /\ results' = IF r.threw THEN results ELSE Append(results, r.value)
           /\ pc' = IF r.threw THEN "threw" ELSE "reconciled"
    /\ UNCHANGED <<input, notRec>>

Next == Reconcile \/ ReconcileAgain

Spec == Init /\ [][Next]_vars

(***************************************************************************)
(* Properties.                                                             *)
(***************************************************************************)
Passes == Len(results)
IsRecord(x) == x.t = "object"
InputItems == IF IsRecord(input) THEN ItemsOf(input) ELSE <<>>
Known(x) == x.t = "number"

\* two returned records agree in everything but the line items' qty
SameButQty(a, b) ==
    IF ~IsRecord(a) \/ ~IsRecord(b) THEN a = b
    ELSE /\ \A f \in {"subtotal", "tax_rate", "tax_amount", "total"} : a[f] = b[f]
         /\ Len(a.line_items.items) = Len(b.line_items.items)
         /\ \A k \in 1..Len(a.line_items.items) :
                \A f \in {"product_or_service", "description", "unit_price", "amount"} :
                    a.line_items.items[k][f] = b.line_items.items[k][f]

\* the qty of every line item of b is that of a, or the integer nearest amount / unit_price
QtySameOrSnapped(a, b) ==
    IsRecord(a) /\ IsRecord(b) =>
        \A k \in 1..Len(a.line_items.items) :
            LET x == a.line_items.items[k]
                y == b.line_items.items[k]
            IN  \/ y.qty = x.qty
                \/ /\ Known(x.unit_price) /\ Known(x.amount)
                   /\ y.qty = MathRound(JsDiv(x.amount, x.unit_price))

\* C1 (as stated): reconcile is idempotent: the record returned by a second
\* application equals, field by field, the record returned by the first.
C1_Idempotent == Passes >= 2 => results[2] = results[1]

\* C1 (amended): a second application changes nothing but, possibly, the qty
\* of a line item, which it may replace by the integer nearest
\* amount / unitPrice; and a third application changes nothing at all.
C1_IdempotentFromSecond ==
    /\ Passes >= 2 => SameButQty(results[1], results[2]) /\ QtySameOrSnapped(results[1], results[2])
    /\ Passes >= 3 => results[3] = results[2]

\* C1 witness: three applications were made and the second changed a qty.
C1_Witness == Passes >= 3 /\ results[2] # results[1]

\* C2: reconcile is total: applied to any record it returns a record, never
\* raising an error, and every numeric field of the result is a finite
\* number or null.
C2_Total ==
    pc # "parsed" =>
        /\ pc = "reconciled"
        /\ IsRecord(results[1]) =>
              /\ \A f \in {"subtotal", "tax_rate", "tax_amount", "total"} :
                     results[1][f].t \in {"number", "null"}
              /\ \A k \in 1..Len(results[1].line_items.items) :
                     \A f \in {"qty", "unit_price", "amount"} :
                         results[1].line_items.items[k][f].t \in {"number", "null"}

\* C3: a top-level total, subtotal or taxAmount that is present in the input
\* (normalizes to a number) is returned as that number rounded to 2
\* decimals, whatever the line items and the other fields are.
C3_TopLevelKept ==
    Passes >= 1 /\ IsRecord(input) =>
        \A f \in {"total", "subtotal", "tax_amount"} :
            Known(toNumber(input[f])) => results[1][f] = round2(toNumber(input[f]))

\* C3 witness: a returned record whose input had subtotal, taxAmount and
\* total all present with subtotal + taxAmount # total, and line items.
C3_Witness ==
    /\ Passes >= 1 /\ IsRecord(input)
    /\ input.subtotal = JsNum(100 * One) /\ input.tax_amount = JsNum(13 * One)
    /\ input.total = JsNum(120 * One)
    /\ Len(InputItems) > 0
    /\ results[1].total = JsNum(120 * One)

\* C4: when taxAmount and total are absent from the input: if subtotal (as
\* returned) and taxRate are known then taxAmount = round(subtotal *
\* taxRate / 100) and total = round(subtotal + taxAmount), with subtotal 100
\* and taxRate 13 giving 13.00 and 113.00; otherwise both stay null.
C4_TaxTotalChain ==
    Passes >= 1 /\ IsRecord(input)
        /\ ~Known(toNumber(input.tax_amount)) /\ ~Known(toNumber(input.total)) =>
        LET out == results[1]
            tax == round2(JsMul(out.subtotal, JsDiv(out.tax_rate, JsNum(Hundred * One))))
        IN  IF Known(out.subtotal) /\ Known(out.tax_rate)
            THEN /\ out.tax_amount = tax
                 /\ out.total = round2(JsAdd(out.subtotal, tax))
                 /\ (out.subtotal = JsNum(100 * One) /\ out.tax_rate = JsNum(13 * One)
                        => out.tax_amount = JsNum(13 * One) /\ out.total = JsNum(113 * One))
            ELSE out.tax_amount = JsNull /\ out.total = JsNull

\* C4 witness: subtotal 100, taxRate 13, no taxAmount, no total, reconciled
\* to taxAmount 13.00 and total 113.00.
C4_Witness ==
    /\ Passes >= 1 /\ IsRecord(input)
    /\ input.subtotal = JsNum(100 * One) /\ input.tax_rate = JsNum(13 * One)
    /\ input.tax_amount = JsNull /\ input.total = JsNull
    /\ results[1].tax_amount = JsNum(13 * One) /\ results[1].total = JsNum(113 * One)

\* the sum of the amounts of the items, in thousandths, null counted as 0
RECURSIVE AmountsTotal(_)
AmountsTotal(items) ==
    IF items = <<>> THEN 0
    ELSE (IF Known(Head(items).amount) THEN Head(items).amount.v ELSE 0) + AmountsTotal(Tail(items))

\* C5: when the input subtotal is absent, the returned subtotal is the sum
\* of the returned line-item amounts (null counted as 0) if that sum is not
\* zero, and null otherwise; amounts 10.00 and 5.00 give 15.00.
C5_SubtotalDerived ==
    Passes >= 1 /\ IsRecord(input) /\ ~Known(toNumber(input.subtotal)) =>
        LET out == results[1]
            sum == AmountsTotal(out.line_items.items)
        IN  out.subtotal = IF sum # 0 THEN JsNum(sum) ELSE JsNull

\* C5 witness: no subtotal, two line items with amounts 10.00 and 5.00,
\* reconciled to subtotal 15.00.
C5_Witness ==
    /\ Passes >= 1 /\ IsRecord(input) /\ input.subtotal = JsNull
    /\ Len(InputItems) = 2
    /\ results[1].line_items.items[1].amount = JsNum(10 * One)
    /\ results[1].line_items.items[2].amount = JsNum(5 * One)
    /\ results[1].subtotal = JsNum(15 * One)

\* the normalized qty, unitPrice and amount of input line item k (lines 85-87)
InQty(k) == toNumber(Prop(InputItems[k], "qty"))
InUnit(k) == round2(toNumber(Prop(InputItems[k], "unit_price")))
InAmount(k) == round2(toNumber(Prop(InputItems[k], "amount")))
OutItem(k) == results[1].line_items.items[k]
Dist(a, b) == JsAbs(JsSub(a, b))

\* C6: a line item with no amount and known qty and unitPrice is returned
\* with amount = round(qty * unitPrice) and with its normalized qty and
\* unitPrice; qty 3 and unitPrice 10 give amount 30.00.
C6_AmountCompleted ==
    Passes >= 1 =>
        \A k \in 1..Len(InputItems) :
            InAmount(k) = JsNull /\ Known(InQty(k)) /\ Known(InUnit(k)) =>
                /\ OutItem(k).amount = round2(JsMul(InQty(k), InUnit(k)))
                /\ OutItem(k).qty = InQty(k)
                /\ OutItem(k).unit_price = InUnit(k)
                /\ (InQty(k) = JsNum(3 * One) /\ InUnit(k) = JsNum(10 * One)
                       => OutItem(k).amount = JsNum(30 * One))

\* C6 witness: {qty: 3, unitPrice: 10, amount: null} returned with amount 30.00.
C6_Witness ==
    /\ Passes >= 1
    /\ \E k \in 1..Len(InputItems) :
           /\ InAmount(k) = JsNull /\ InQty(k) = JsNum(3 * One) /\ InUnit(k) = JsNum(10 * One)
           /\ OutItem(k).amount = JsNum(30 * One)

C8_InconsistencyCorrected ==
    Passes >= 1 =>
        \A k \in 1..Len(InputItems) :
            Known(InQty(k)) /\ Known(InUnit(k)) /\ Known(InAmount(k)) =>
                LET qty == InQty(k)
                    unit == InUnit(k)
                    amt == InAmount(k)
                    q == JsDiv(amt, unit)
                    qInt == MathRound(q)
                    consistent == JsLe(Dist(round2(JsMul(qty, unit)), amt), JsNum(5 * Cent))
                    integral == /\ unit # JsNum(0)
                                /\ JsLt(Dist(q, qInt), JsNum(5 * Cent))
                                /\ JsLe(Dist(round2(JsMul(qInt, unit)), amt), JsNum(10 * Cent))
                IN  /\ OutItem(k).amount = amt
                    /\ OutItem(k).qty = IF ~consistent /\ integral THEN qInt ELSE qty
                    /\ OutItem(k).unit_price =
                           IF ~consistent /\ ~integral /\ qty # JsNum(0)
                           THEN round2(JsDiv(amt, qty))
                           ELSE unit
                    /\ (qty = JsNum(2 * One) /\ unit = JsNum(10 * One) /\ amt = JsNum(19980)
                           => OutItem(k).qty = qty /\ OutItem(k).unit_price = unit)

\* C8 witness: the inconsistent item {qty: 2, unitPrice: 10, amount: 30}
\* returned with qty replaced by the nearest integer, 3.
C8_Witness ==
    /\ Passes >= 1
    /\ \E k \in 1..Len(InputItems) :
           /\ InQty(k) = JsNum(2 * One) /\ InUnit(k) = JsNum(10 * One) /\ InAmount(k) = JsNum(30 * One)
           /\ OutItem(k).qty = JsNum(3 * One)

\* the repair steps of lines 90-117 applied in turn to the normalized item k
Steps(k) ==
    LET i0 == [qty |-> InQty(k), unit |-> InUnit(k), amt |-> InAmount(k)]
        i1 == FillAmount(i0)
        i2 == FillUnit(i1)
        i3 == FillQty(i2)
    IN  <<i0, i1, i2, i3, FixInconsistent(i3)>>

\* C21: a line item whose input amount normalizes to a number is returned
\* with that number rounded to 2 decimals as its amount (a multiple of 0.01
\* at most half a cent away from it): none of the repair steps (fill of
\* unitPrice, fill of qty, integer-quantity correction, last-resort
\* unit-price recompute) changes a known amount, and later passes keep it.
C21_AmountTrusted ==
    Passes >= 1 =>
        \A k \in 1..Len(InputItems) :
            LET n == toNumber(Prop(InputItems[k], "amount"))
            IN  Known(n) =>
                    /\ \A j \in 1..Len(Steps(k)) : Steps(k)[j].amt = InAmount(k)
                    /\ \A p \in 1..Passes : results[p].line_items.items[k].amount = InAmount(k)
                    /\ OutItem(k).amount.d = 1 /\ OutItem(k).amount.v % Cent = 0
                    /\ JsLe(Dist(OutItem(k).amount, n), JsNum(Cent \div 2))

\* C21 witness: {qty: 30.2, unitPrice: 7, amount: 15.01} returned with the
\* known unitPrice rewritten to 0.5 and the amount still 15.01.
C21_Witness ==
    /\ Passes >= 1
    /\ \E k \in 1..Len(InputItems) :
           /\ InQty(k) = JsNum(30200) /\ InUnit(k) = JsNum(7000) /\ InAmount(k) = JsNum(15010)
           /\ OutItem(k).unit_price = JsNum(500)
           /\ OutItem(k).amount = JsNum(15010)

\* the other half of C21, as what it denies: a known qty is always returned
\* as it was normalized (C8_Witness is a state where it is not)
C21_QtyNeverRewritten ==
    Passes >= 1 =>
        \A k \in 1..Len(InputItems) : Known(InQty(k)) => OutItem(k).qty = InQty(k)
\* a known unitPrice is always returned as it was normalized
C21_UnitNeverRewritten ==
    Passes >= 1 =>
        \A k \in 1..Len(InputItems) : Known(InUnit(k)) => OutItem(k).unit_price = InUnit(k)

\* n rounded to 2 decimals with halves away from zero
HalfAwayFromZero(n) ==
    IF n.v < 0 THEN JsNum(-(Cent * RoundHalfUp(-n.v, Cent)))
    ELSE JsNum(Cent * RoundHalfUp(n.v, Cent))

\* C9: every monetary value is rounded to 2 decimals with halves away from
\* zero, for positive and negative values alike (0.125 gives 0.13, -0.125
\* gives -0.13); null stays null.
C9_HalfAwayFromZero ==
    Passes >= 1 /\ IsRecord(input) =>
        \A f \in {"total", "subtotal", "tax_amount"} :
            Known(toNumber(input[f])) => results[1][f] = HalfAwayFromZero(toNumber(input[f]))

\* C10: in every returned line item, productOrService and description are
\* null or a non-empty string.
C10_NoEmptyText ==
    Passes >= 1 /\ IsRecord(results[1]) =>
        \A k \in 1..Len(results[1].line_items.items) :
            \A f \in {"product_or_service", "description"} :
                LET x == results[1].line_items.items[k][f]
                IN  x = JsNull \/ (x.t = "string" /\ x.s # <<>>)

(***************************************************************************)
(* The recognition driver's scoring and pass selection                     *)
(* (src/unnamed/part_000: scoreOcrText, canvasToOcrText).                  *)
(* A text is a sequence of characters; each character here is one UTF-16   *)
(* code unit, the replacement glyph U+FFFD included.                       *)
(***************************************************************************)
Glyph == "U+FFFD"              \* the replacement glyph of the regex /[<U+FFFD>]/g
LetterChars ==                                 \* /[A-Za-z]/
    {"A", "B", "C", "D", "E", "F", "G", "H", "I", "J", "K", "L", "M",
     "N", "O", "P", "Q", "R", "S", "T", "U", "V", "W", "X", "Y", "Z",
     "a", "b", "c", "d", "e", "f", "g", "h", "i", "j", "k", "l", "m",
     "n", "o", "p", "q", "r", "s", "t", "u", "v", "w", "x", "y", "z"}
WhiteSpace == {" ", "\t", "\n", "\r"}          \* what String.prototype.trim removes

RECURSIVE TrimStart(_)
TrimStart(s) ==
    IF s # <<>> /\ Head(s) \in WhiteSpace THEN TrimStart(Tail(s)) ELSE s

RECURSIVE TrimEnd(_)
TrimEnd(s) ==
    IF s # <<>> /\ s[Len(s)] \in WhiteSpace THEN TrimEnd(SubSeq(s, 1, Len(s) - 1)) ELSE s

\* text.trim()
Trim(s) == TrimEnd(TrimStart(s))

\* (t.match(re) || []).length for a one-character class
Matches(s, class) == Cardinality({i \in 1..Len(s) : s[i] \in class})

GlyphPenalty == 5              \* bad * 5
CharsPerPoint == 5             \* t.length / 5
LengthCap == 200               \* Math.min(200, ...)

JsMin(a, b) == IF JsLt(b, a) THEN b ELSE a

\* scoreOcrText with the replacement glyphs left uncounted
scoreOcrText_GlyphsUncounted(text) ==
    LET t == Trim(text)
        letters == Matches(t, LetterChars)
        digits == Matches(t, DigitChars)
    IN  IF t = <<>> THEN JsNum(0)
        ELSE JsAdd(JsNum((letters + digits) * One),
                   JsMin(JsNum(LengthCap * One),
                         JsDiv(JsNum(Len(t) * One), JsNum(CharsPerPoint * One))))

\* function scoreOcrText(text = "")  (lines 135-142)
scoreOcrText(text) ==
    LET t == Trim(text)
        letters == Matches(t, LetterChars)
        digits == Matches(t, DigitChars)
        bad == Matches(t, {Glyph})
    IN  IF t = <<>> THEN JsNum(0)
        ELSE JsAdd(JsSub(JsNum((letters + digits) * One), JsNum(bad * GlyphPenalty * One)),
                   JsMin(JsNum(LengthCap * One),
                         JsDiv(JsNum(Len(t) * One), JsNum(CharsPerPoint * One))))

\* r?.data?.text || ""  (lines 167, 177)
TextOrEmpty(x) == IF x.t = "string" THEN x.s ELSE <<>>

\* the selection with ties going to pass 2
BestOf_TiesToPass2(a, b) == IF JsLe(scoreOcrText(a), scoreOcrText(b)) THEN b ELSE a

\* scoreOcrText(t2) > scoreOcrText(t1) ? t2 : t1  (line 179)
BestOf(a, b) == IF JsLt(scoreOcrText(a), scoreOcrText(b)) THEN b ELSE a

MaxText == 3                   \* longest short text the engine returns

TextChars == {"a", "7", " ", ".", Glyph}
\* a text whose length reaches the cap of the length term, and its one-character extensions
CapText == [i \in 1..(LengthCap * CharsPerPoint) |-> "."]
\* what worker.recognize resolves to: a result with its text, or one without any
Recognized ==
    {JsUndefined}
        \cup {JsStr(s) : s \in SeqsUpTo(TextChars, MaxText)}
        \cup {JsStr(CapText)} \cup {JsStr(CapText \o <<c>>) : c \in {"a", ".", Glyph}}

InitScore ==
    /\ t1 = <<>> /\ t2 = <<>> /\ best = <<>>
    /\ scorePc = "start"
    /\ RecIdle /\ OcrIdle /\ RouteIdle /\ ImgIdle

\* const r1 = await worker.recognize(cleaned); const t1 = r1?.data?.text || ""
RecognizePass1 ==
    /\ scorePc = "start"
    /\ \E r \in Recognized : t1' = TextOrEmpty(r)
    /\ scorePc' = "pass1"
    /\ UNCHANGED <<t2, best, notScore>>

\* const r2 = await worker.recognize(cleaned); const t2 = r2?.data?.text || ""
RecognizePass2 ==
    /\ scorePc = "pass1"
    /\ \E r \in Recognized : t2' = TextOrEmpty(r)
    /\ scorePc' = "pass2"
    /\ UNCHANGED <<t1, best, notScore>>

\* return scoreOcrText(t2) > scoreOcrText(t1) ? t2 : t1
ReturnBest ==
    /\ scorePc = "pass2"
    /\ best' = BestOf(t1, t2)
    /\ scorePc' = "returned"
    /\ UNCHANGED <<t1, t2, notScore>>

NextScore == RecognizePass1 \/ RecognizePass2 \/ ReturnBest

SpecScore == InitScore /\ [][NextScore]_vars

\* one character appended to a text
IsPlusOne(long, short) ==
    Len(long) = Len(short) + 1 /\ SubSeq(long, 1, Len(short)) = short
\* two texts that differ in their last character only
SameButLast(a, b) ==
    /\ a # <<>> /\ Len(a) = Len(b)
    /\ SubSeq(a, 1, Len(a) - 1) = SubSeq(b, 1, Len(b) - 1)
AlnumChars == LetterChars \cup DigitChars
\* characters that are counted by nothing but the length term
NeutralChars == {"."}
BothPassesRead == scorePc \in {"pass2", "returned"}
ScoreGap(a, b) == JsSub(scoreOcrText(a), scoreOcrText(b))

\* C11 (as stated): empty or whitespace-only text scores 0; appending one
\* alphanumeric character strictly increases the score; and the text ending in
\* a replacement glyph scores exactly 5 below the same text ending in any
\* ordinary single character, a letter or a digit as much as a full stop.
C11_ScoreMonotone ==
    BothPassesRead =>
        /\ (Trim(t1) = <<>> => scoreOcrText(t1) = JsNum(0))
        /\ (IsPlusOne(t2, t1) /\ t2[Len(t2)] \in AlnumChars
                => JsLt(scoreOcrText(t1), scoreOcrText(t2)))
        /\ (SameButLast(t1, t2) /\ t2[Len(t2)] = Glyph /\ t1[Len(t1)] \in AlnumChars \cup NeutralChars
                => ScoreGap(t1, t2) = JsNum(GlyphPenalty * One))

\* C11 (amended): empty or whitespace-only text scores 0; appending one
\* alphanumeric character strictly increases the score, by at least 1; and the
\* text ending in a replacement glyph scores exactly 5 below the same text
\* ending in a character that is neither a letter, a digit nor white space,
\* and exactly 6 below the same text ending in a letter or a digit.
C11_ScoreMonotoneNeutral ==
    BothPassesRead =>
        /\ (Trim(t1) = <<>> => scoreOcrText(t1) = JsNum(0))
        /\ (IsPlusOne(t2, t1) /\ t2[Len(t2)] \in AlnumChars
                => JsLe(JsNum(One), ScoreGap(t2, t1)))
        /\ (SameButLast(t1, t2) /\ t2[Len(t2)] = Glyph /\ t1[Len(t1)] \in NeutralChars
                => ScoreGap(t1, t2) = JsNum(GlyphPenalty * One))
        /\ (SameButLast(t1, t2) /\ t2[Len(t2)] = Glyph /\ t1[Len(t1)] \in AlnumChars
                => ScoreGap(t1, t2) = JsNum((GlyphPenalty + 1) * One))

\* C11 witness: both passes read a text at the length cap, one ending in an
\* ordinary full stop and the other in a replacement glyph.
C11_Witness ==
    /\ BothPassesRead
    /\ SameButLast(t1, t2) /\ t2[Len(t2)] = Glyph /\ t1[Len(t1)] = "."
    /\ Len(t1) > LengthCap * CharsPerPoint

\* C12: the returned text is the pass-2 text only when pass 2 scores strictly
\* higher; on equal scores (both texts empty included) or a higher pass-1
\* score it is the pass-1 text.
C12_PassSelection ==
    scorePc = "returned" =>
        /\ (JsLt(scoreOcrText(t1), scoreOcrText(t2)) => best = t2)
        /\ (~JsLt(scoreOcrText(t1), scoreOcrText(t2)) => best = t1)
        /\ (t1 = <<>> /\ t2 = <<>> => best = t1)

\* C12 witness: two different texts with equal scores, pass 1 returned.
C12_Witness ==
    /\ scorePc = "returned"
    /\ t1 # t2 /\ scoreOcrText(t1) = scoreOcrText(t2) /\ scoreOcrText(t1) # JsNum(0)
    /\ best = t1

(***************************************************************************)
(* The recognition engine's handle and the document assembler              *)
(* (src/unnamed/part_000: getWorker, terminateOcrWorker, canvasToOcrText,  *)
(* ocrPdf, ocrTiff, ocrImage, ocrAny).                                     *)
(*                                                                         *)
(* An async function runs from one await to the next without interruption; *)
(* each action below is one such stretch, and between two of them any      *)
(* other invocation may run.  engines[w] is the engine that the w-th call  *)
(* of createWorker starts, together with the promise that the immediately  *)
(* invoked async function of getWorker returns for it; workerPromise is 0  *)
(* for null and otherwise the number of the cached promise.  The engine is *)
(* an external collaborator: a call issued to it may resolve at any later  *)
(* time, in any order, or reject.                                          *)
(***************************************************************************)
psmDefault == "6"              \* tessedit_pageseg_mode of getWorker, line 25
psmPrimary == "6"              \* lines 149, 211, 290, 322
psmFallback == "11"            \* lines 150, 212, 291, 323

NewEngine == [state |-> "creating", psm |-> "", terminated |-> FALSE]

OcrState == [docs |-> docs, engines |-> engines, workerPromise |-> workerPromise]

\* getWorker with no cache: every call starts an engine
getWorker_NeverCached(st) ==
    [st EXCEPT !.engines = Append(@, NewEngine),
               !.workerPromise = Len(st.engines) + 1]

\* getWorker starting a new engine when the cached start-up has failed
getWorker_RetriesFailed(st) ==
    IF st.workerPromise = 0 \/ st.engines[st.workerPromise].state = "rejected"
    THEN [st EXCEPT !.engines = Append(@, NewEngine),
                    !.workerPromise = Len(st.engines) + 1]
    ELSE st

\* getWorker up to its return: the cached promise, created if there is none
\* (lines 18-33; createWorker is called before the first await)
getWorker(st) ==
    IF st.workerPromise = 0
    THEN [st EXCEPT !.engines = Append(@, NewEngine),
                    !.workerPromise = Len(st.engines) + 1]
    ELSE st

\* the page event with a page index counted from 0
PageEvent_ZeroBased(stage, k, n) == [stage |-> stage, page |-> k - 1, totalPages |-> n]

\* onProgress?.({ stage, page, totalPages })  (lines 193, 256)
PageEvent(stage, k, n) == [stage |-> stage, page |-> k, totalPages |-> n]
\* onProgress?.({ stage: "ocr", pass, psm })  (lines 165, 175)
PassEvent(pass, psm) == [stage |-> "ocr", pass |-> pass, psm |-> psm]
\* worker.recognize(cleaned) issued, and its promise resolved
RecognizeCall(k, pass) == [call |-> "recognize", bitmap |-> k, pass |-> pass]
RecognizeDone(k, pass) == [resolved |-> "recognize", bitmap |-> k, pass |-> pass]

Emit(st, d, ev) == [st EXCEPT !.docs[d].log = Append(@, ev)]

\* a throw that nothing catches: the promise of ocrAny rejects; page is the
\* page number the message names, 0 if it names none
Throw(st, d, k) ==
    [st EXCEPT !.docs[d].pc = "rejected",
               !.docs[d].result = [t |-> "error", page |-> k]]

Return(st, d, text) ==
    [st EXCEPT !.docs[d].pc = "resolved",
               !.docs[d].result = [t |-> "text", s |-> text]]

\* canvasToOcrText up to its first await: const worker = await getWorker()
canvasToOcrText(st, d) ==
    LET s1 == getWorker(st)
    IN  [s1 EXCEPT !.docs[d].pc = "getWorker",
                   !.docs[d].worker = s1.workerPromise]

Separator ==
    <<"\n", "\n", "-", "-", "-", " ", "P", "A", "G", "E", " ",
      "B", "R", "E", "A", "K", " ", "-", "-", "-", "\n", "\n">>

\* allText.filter(Boolean)
FilterBoolean(texts) == SelectSeq(texts, LAMBDA t : t # <<>>)

\* Array.prototype.join
RECURSIVE Join(_, _)
Join(texts, sep) ==
    IF texts = <<>> THEN <<>>
    ELSE IF Len(texts) = 1 THEN texts[1]
    ELSE texts[1] \o sep \o Join(Tail(texts), sep)

\* the join with every page kept
JoinPages_KeepsEmpty(allText) == Join(allText, Separator)

\* allText.filter(Boolean).join("\n\n--- PAGE BREAK ---\n\n")  (lines 221, 298)
JoinPages(allText) == Join(FilterBoolean(allText), Separator)

\* ocrPdf from the head of its loop to the next await (lines 192-195, 221)
PdfPage(st, d) ==
    LET doc == st.docs[d]
        k == doc.page + 1
        n == Len(doc.file.frames)
    IN  IF k > n THEN Return(st, d, JoinPages(doc.allText))
        ELSE [Emit(st, d, PageEvent("pdf", k, n)) EXCEPT
                  !.docs[d].page = k, !.docs[d].pc = "render"]

\* !x for a value that comes out of a decoder, a JSON body or the environment
IsFalsy(x) ==
    \/ x.t \in {"undefined", "null"}
    \/ (x.t = "string" /\ x.s = <<>>)
    \/ (x.t = "number" /\ x.v = 0)

\* the frame checks with the pixel data left unchecked
FrameRejected_DimsOnly(frame) == IsFalsy(frame.width) \/ IsFalsy(frame.height)

\* !w || !h (line 266), UTIF.toRGBA8 throwing (lines 270-274),
\* !rgba || rgba.length === 0 (line 275): each throws an Error naming page i + 1
FrameRejected(frame) ==
    \/ IsFalsy(frame.width) \/ IsFalsy(frame.height)
    \/ frame.rgba = "throws"
    \/ frame.rgba \in {"null", "empty"}

\* ocrTiff from the head of its loop to the next await (lines 255-293, 298)
TiffPage(st, d) ==
    LET doc == st.docs[d]
        k == doc.page + 1
        n == Len(doc.file.frames)
        s1 == [Emit(st, d, PageEvent("tiff", k, n)) EXCEPT !.docs[d].page = k]
    IN  IF k > n THEN Return(st, d, JoinPages(doc.allText))
        ELSE IF FrameRejected(doc.file.frames[k]) THEN Throw(s1, d, k)
        ELSE canvasToOcrText(s1, d)

\* file.name.toLowerCase().endsWith(".tif") || ... ".tiff"  (lines 342-343)
LowerExt(ext) ==
    CASE ext = "TIF" -> "tif"
      [] ext = "TIFF" -> "tiff"
      [] OTHER -> ext
\* the router ocrAny (lines 334-349)
Route_ByTypeOnly(file) ==
    IF file.type = "application/pdf" THEN "pdf"
    ELSE IF file.type \in {"image/tiff", "image/tif"} THEN "tiff"
    ELSE "image"

Route(file) ==
    IF file.type = "application/pdf" THEN "pdf"
    ELSE IF \/ file.type \in {"image/tiff", "image/tif"}
            \/ LowerExt(file.ext) \in {"tif", "tiff"} THEN "tiff"
    ELSE "image"

Becomes(st) ==
    /\ docs' = st.docs
    /\ engines' = st.engines
    /\ workerPromise' = st.workerPromise

AwaitsEngineCall(d) ==
    docs[d].pc \in {"setParameters1", "recognize1", "setParameters2", "recognize2"}

\* ocrAny(file, onProgress) after the file is read (and, for an image, loaded):
\* the router's choice runs up to its next await
FileRead(d) ==
    /\ docs[d].pc = "reading"
    /\ \E st \in {CASE Route(docs[d].file) = "pdf" -> PdfPage(OcrState, d)
                    [] Route(docs[d].file) = "tiff" ->
                           IF docs[d].file.frames = <<>>
                           THEN Throw(OcrState, d, 0)        \* line 237
                           ELSE TiffPage(OcrState, d)
                    [] OTHER ->
                           canvasToOcrText([OcrState EXCEPT !.docs[d].page = 1], d)} :
           Becomes(st)
    /\ UNCHANGED <<teardowns, vocabulary, notOcr>>

\* ocrPdf: await page.render(...).promise resolved (lines 195-209)
PageRendered(d) ==
    /\ docs[d].pc = "render"
    /\ \E st \in {canvasToOcrText(OcrState, d)} : Becomes(st)
    /\ UNCHANGED <<teardowns, vocabulary, notOcr>>

\* canvasToOcrText: await getWorker() resolved; preprocess; setParameters (lines 155-163)
WorkerResolved(d) ==
    /\ docs[d].pc = "getWorker"
    /\ engines[docs[d].worker].state = "fulfilled"
    /\ docs' = [docs EXCEPT ![d].pc = "setParameters1"]
    /\ engines' = [engines EXCEPT ![docs[d].worker].psm = psmPrimary]
    /\ UNCHANGED <<workerPromise, teardowns, vocabulary, notOcr>>

\* canvasToOcrText: await getWorker() rejected
WorkerRejected(d) ==
    /\ docs[d].pc = "getWorker"
    /\ engines[docs[d].worker].state = "rejected"
    /\ \E st \in {Throw(OcrState, d, 0)} : Becomes(st)
    /\ UNCHANGED <<teardowns, vocabulary, notOcr>>

\* the progress event of a pass and worker.recognize(cleaned) (lines 165-166, 175-176)
IssueRecognize(d, pass, psm) ==
    [docs EXCEPT ![d].log = @ \o <<PassEvent(pass, psm), RecognizeCall(docs[d].page, pass)>>,
                 ![d].modes = Append(@, engines[docs[d].worker].psm),
                 ![d].pc = IF pass = 1 THEN "recognize1" ELSE "recognize2"]

Pass1Configured(d) ==
    /\ docs[d].pc = "setParameters1"
    /\ docs' = IssueRecognize(d, 1, psmPrimary)
    /\ UNCHANGED <<engines, workerPromise, teardowns, vocabulary, notOcr>>

\* r1 resolved; t1; setParameters for the fallback pass (lines 166-173)
Pass1Recognized(d) ==
    /\ docs[d].pc = "recognize1"
    /\ \E r \in vocabulary :
           docs' = [docs EXCEPT ![d].t1 = TextOrEmpty(r),
                                ![d].log = Append(@, RecognizeDone(docs[d].page, 1)),
                                ![d].pc = "setParameters2"]
    /\ engines' = [engines EXCEPT ![docs[d].worker].psm = psmFallback]
    /\ UNCHANGED <<workerPromise, teardowns, vocabulary, notOcr>>

Pass2Configured(d) ==
    /\ docs[d].pc = "setParameters2"
    /\ docs' = IssueRecognize(d, 2, psmFallback)
    /\ UNCHANGED <<engines, workerPromise, teardowns, vocabulary, notOcr>>

\* the page's text pushed and the loop of the caller continued
PageDone(st, d, text) ==
    LET s1 == [st EXCEPT !.docs[d].allText = Append(@, Trim(text))]
    IN  CASE Route(st.docs[d].file) = "pdf" -> PdfPage(s1, d)        \* lines 218-221
          [] Route(st.docs[d].file) = "tiff" -> TiffPage(s1, d)      \* lines 295-298
          [] OTHER -> Return(st, d, text)                            \* line 327

\* r2 resolved; t2; the better text returned to the caller (lines 176-179)
Pass2Recognized(d) ==
    /\ docs[d].pc = "recognize2"
    /\ \E r \in vocabulary :
         \E st \in {PageDone([OcrState EXCEPT
                                  !.docs[d].t2 = TextOrEmpty(r),
                                  !.docs[d].log = Append(@, RecognizeDone(docs[d].page, 2))],
                              d, BestOf(docs[d].t1, TextOrEmpty(r)))} :
             Becomes(st)
    /\ UNCHANGED <<teardowns, vocabulary, notOcr>>

\* a call on the engine rejects: canvasToOcrText throws and the document with it
EngineCallRejected(d) ==
    /\ AwaitsEngineCall(d)
    /\ \E st \in {Throw(OcrState, d, 0)} : Becomes(st)
    /\ UNCHANGED <<teardowns, vocabulary, notOcr>>

\* createWorker resolved: the engine exists; setParameters of getWorker (lines 20-28)
EngineCreated(w) ==
    /\ engines[w].state = "creating"
    /\ engines' = [engines EXCEPT ![w].state = "configuring", ![w].psm = psmDefault]
    /\ UNCHANGED <<docs, workerPromise, teardowns, vocabulary, notOcr>>

\* return worker: the cached promise is fulfilled (line 30)
EngineConfigured(w) ==
    /\ engines[w].state = "configuring"
    /\ engines' = [engines EXCEPT ![w].state = "fulfilled"]
    /\ UNCHANGED <<docs, workerPromise, teardowns, vocabulary, notOcr>>

\* createWorker or setParameters rejected: so does the cached promise
EngineStartFailed(w) ==
    /\ engines[w].state \in {"creating", "configuring"}
    /\ engines' = [engines EXCEPT ![w].state = "rejected"]
    /\ UNCHANGED <<docs, workerPromise, teardowns, vocabulary, notOcr>>

\* terminateOcrWorker() called (lines 37-39, 43)
TerminateCalled(t) ==
    /\ teardowns[t].pc = "idle"
    /\ teardowns' = [teardowns EXCEPT
           ![t] = IF workerPromise # 0
                  THEN [pc |-> "awaitWorker", worker |-> workerPromise]
                  ELSE [pc |-> "resolved", worker |-> 0]]
    /\ UNCHANGED <<docs, engines, workerPromise, vocabulary, notOcr>>

\* await workerPromise resolved; worker.terminate() (lines 39-40)
TerminateIssued(t) ==
    /\ teardowns[t].pc = "awaitWorker"
    /\ engines[teardowns[t].worker].state = "fulfilled"
    /\ engines' = [engines EXCEPT ![teardowns[t].worker].terminated = TRUE]
    /\ teardowns' = [teardowns EXCEPT ![t].pc = "terminate"]
    /\ UNCHANGED <<docs, workerPromise, vocabulary, notOcr>>

\* await workerPromise rejected: terminateOcrWorker throws (line 39)
TerminateRejected(t) ==
    /\ teardowns[t].pc = "awaitWorker"
    /\ engines[teardowns[t].worker].state = "rejected"
    /\ teardowns' = [teardowns EXCEPT ![t].pc = "rejected"]
    /\ UNCHANGED <<docs, engines, workerPromise, vocabulary, notOcr>>

\* await worker.terminate() resolved; workerPromise = null (lines 40-41)
TerminateDone(t) ==
    /\ teardowns[t].pc = "terminate"
    /\ workerPromise' = 0
    /\ teardowns' = [teardowns EXCEPT ![t].pc = "resolved"]
    /\ UNCHANGED <<docs, engines, vocabulary, notOcr>>

\* await worker.terminate() rejected: terminateOcrWorker throws before line 41
TerminateFailed(t) ==
    /\ teardowns[t].pc = "terminate"
    /\ teardowns' = [teardowns EXCEPT ![t].pc = "rejected"]
    /\ UNCHANGED <<docs, engines, workerPromise, vocabulary, notOcr>>

MaxPages == 3                  \* most pages or frames of one document
MaxDocs == 2                   \* invocations of ocrAny that overlap
MaxTeardowns == 1              \* invocations of terminateOcrWorker

File(type, ext, frames) == [type |-> type, ext |-> ext, frames |-> frames]
\* a decoded frame: the width and height it reports and what UTIF.toRGBA8 makes of it
Frame(w, h, rgba) == [width |-> w, height |-> h, rgba |-> rgba]
SoundFrame == Frame(JsNum(2 * One), JsNum(One), "pixels")
MalformedFrames ==
    {Frame(JsNum(0), JsNum(One), "pixels"), Frame(JsNum(2 * One), JsUndefined, "pixels"),
     Frame(JsNull, JsNum(0), "empty"),
     Frame(JsNum(2 * One), JsNum(One), "throws"),
     Frame(JsNum(2 * One), JsNum(One), "empty"),
     Frame(JsNum(2 * One), JsNum(One), "null")}
Pages(n) == [k \in 1..n |-> SoundFrame]
\* the frames of a TIFF: all of them sound, or one of them malformed
TiffFrames ==
    {Pages(n) : n \in 0..MaxPages}
        \cup {[k \in 1..n |-> IF k = bad THEN fr ELSE SoundFrame] :
                  n \in 1..MaxPages, bad \in 1..MaxPages, fr \in MalformedFrames}
\* files routed to ocrPdf, to ocrTiff (by type or by name) and to ocrImage
DocFiles ==
    {File("application/pdf", "pdf", Pages(n)) : n \in 0..MaxPages}
        \cup {File("image/tiff", "tiff", fr) : fr \in TiffFrames}
        \cup {File("", "TIF", Pages(1)), File("application/octet-stream", "tiff", Pages(1)),
              File("image/tif", "bin", Pages(1))}
        \cup {File("image/png", "png", Pages(1)), File("", "jpg", Pages(1))}

\* what the engine reads off a page: nothing, blank space, or text with space around it
PageResults ==
    {JsUndefined, JsStr(<<" ">>), JsStr(<<"A">>), JsStr(<<"B", " ">>)}

Doc(file) ==
    [file |-> file, pc |-> "reading", page |-> 0, worker |-> 0,
     t1 |-> <<>>, t2 |-> <<>>, allText |-> <<>>, log |-> <<>>, modes |-> <<>>,
     result |-> [t |-> "pending"]]
NoTeardown == [pc |-> "idle", worker |-> 0]

\* one document is read while terminateOcrWorker may be called
InitDoc ==
    /\ docs \in {<<Doc(f)>> : f \in DocFiles}
    /\ engines = <<>>
    /\ workerPromise = 0
    /\ teardowns = [t \in 1..MaxTeardowns |-> NoTeardown]
    /\ vocabulary = PageResults
    /\ RecIdle /\ ScoreIdle /\ RouteIdle /\ ImgIdle

NextDoc ==
    \/ \E d \in DOMAIN docs : FileRead(d)
    \/ \E d \in DOMAIN docs : PageRendered(d)
    \/ \E d \in DOMAIN docs : WorkerResolved(d)
    \/ \E d \in DOMAIN docs : WorkerRejected(d)
    \/ \E d \in DOMAIN docs : Pass1Configured(d)
    \/ \E d \in DOMAIN docs : Pass1Recognized(d)
    \/ \E d \in DOMAIN docs : Pass2Configured(d)
    \/ \E d \in DOMAIN docs : Pass2Recognized(d)
    \/ \E d \in DOMAIN docs : EngineCallRejected(d)
    \/ \E w \in DOMAIN engines : EngineCreated(w)
    \/ \E w \in DOMAIN engines : EngineConfigured(w)
    \/ \E w \in DOMAIN engines : EngineStartFailed(w)
    \/ \E t \in DOMAIN teardowns : TerminateCalled(t)
    \/ \E t \in DOMAIN teardowns : TerminateIssued(t)
    \/ \E t \in DOMAIN teardowns : TerminateRejected(t)
    \/ \E t \in DOMAIN teardowns : TerminateDone(t)
    \/ \E t \in DOMAIN teardowns : TerminateFailed(t)

SpecDoc == InitDoc /\ [][NextDoc]_vars

\* several images are read at once; the engine reads the same text off each
InitEngine ==
    /\ docs = [d \in 1..MaxDocs |-> Doc(File("image/png", "png", Pages(1)))]
    /\ engines = <<>>
    /\ workerPromise = 0
    /\ teardowns = [t \in 1..MaxTeardowns |-> NoTeardown]
    /\ vocabulary = {JsStr(<<"A">>)}
    /\ RecIdle /\ ScoreIdle /\ RouteIdle /\ ImgIdle

NextEngine ==
    \/ \E d \in DOMAIN docs : FileRead(d)
    \/ \E d \in DOMAIN docs : WorkerResolved(d)
    \/ \E d \in DOMAIN docs : WorkerRejected(d)
    \/ \E d \in DOMAIN docs : Pass1Configured(d)
    \/ \E d \in DOMAIN docs : Pass1Recognized(d)
    \/ \E d \in DOMAIN docs : Pass2Configured(d)
    \/ \E d \in DOMAIN docs : Pass2Recognized(d)
    \/ \E d \in DOMAIN docs : EngineCallRejected(d)
    \/ \E w \in DOMAIN engines : EngineCreated(w)
    \/ \E w \in DOMAIN engines : EngineConfigured(w)
    \/ \E w \in DOMAIN engines : EngineStartFailed(w)
    \/ \E t \in DOMAIN teardowns : TerminateCalled(t)
    \/ \E t \in DOMAIN teardowns : TerminateIssued(t)
    \/ \E t \in DOMAIN teardowns : TerminateRejected(t)
    \/ \E t \in DOMAIN teardowns : TerminateDone(t)
    \/ \E t \in DOMAIN teardowns : TerminateFailed(t)

SpecEngine == InitEngine /\ [][NextEngine]_vars

MaxOverlap == 2                \* invocations of terminateOcrWorker under way at once

\* an invocation that starts the engine and a later one, while
\* terminateOcrWorker may be called again before an earlier call has returned
InitStartup ==
    /\ docs = <<Doc(File("image/png", "png", Pages(1))), Doc(File("image/jpeg", "jpg", Pages(1)))>>
    /\ engines = <<>>
    /\ workerPromise = 0
    /\ teardowns = [t \in 1..MaxOverlap |-> NoTeardown]
    /\ vocabulary = {JsStr(<<"A">>)}
    /\ RecIdle /\ ScoreIdle /\ RouteIdle /\ ImgIdle

SpecStartup == InitStartup /\ [][NextEngine]_vars

(***************************************************************************)
(* Properties of the document assembler and of the engine handle.          *)
(***************************************************************************)
IsPrefix(a, b) == Len(a) <= Len(b) /\ SubSeq(b, 1, Len(a)) = a
MultiPage(doc) == Route(doc.file) \in {"pdf", "tiff"}
Resolved(doc) == doc.pc = "resolved"
Rejected(doc) == doc.pc = "rejected"

\* the pieces of a text between separators
RECURSIVE Split(_, _, _)
Split(s, sep, piece) ==
    IF s = <<>> THEN <<piece>>
    ELSE IF IsPrefix(sep, s)
         THEN <<piece>> \o Split(SubSeq(s, Len(sep) + 1, Len(s)), sep, <<>>)
         ELSE Split(Tail(s), sep, Append(piece, Head(s)))

KeptPages(doc) == SelectSeq(doc.allText, LAMBDA t : t # <<>>)

\* C13: the text of a finished multi-page document is its trimmed page texts
\* in page order, the empty ones dropped, with the separator between every
\* two kept pages and nowhere else; if no page is kept it is the empty text.
C13_PageBreakJoin ==
    \A d \in DOMAIN docs :
        Resolved(docs[d]) /\ MultiPage(docs[d]) =>
            /\ Len(docs[d].allText) = Len(docs[d].file.frames)
            /\ \A k \in DOMAIN docs[d].allText :
                   Trim(docs[d].allText[k]) = docs[d].allText[k]
            /\ docs[d].result.t = "text"
            /\ IF KeptPages(docs[d]) = <<>>
               THEN docs[d].result.s = <<>>
               ELSE Split(docs[d].result.s, Separator, <<>>) = KeptPages(docs[d])

\* C13 witness: page texts A, empty, B give A, one separator, B.
C13_Witness ==
    \E d \in DOMAIN docs :
        /\ Resolved(docs[d]) /\ MultiPage(docs[d])
        /\ docs[d].allText = <<(<<"A">>), <<>>, (<<"B">>)>>
        /\ docs[d].result.s = <<"A">> \o Separator \o <<"B">>

\* the first malformed frame of a document, 0 if it has none
FirstMalformed(doc) ==
    LET bad == {k \in DOMAIN doc.file.frames :
                    \/ doc.file.frames[k].width.t # "number"
                    \/ doc.file.frames[k].width.v <= 0
                    \/ doc.file.frames[k].height.t # "number"
                    \/ doc.file.frames[k].height.v <= 0
                    \/ doc.file.frames[k].rgba # "pixels"}
    IN  IF bad = {} THEN 0 ELSE CHOOSE k \in bad : \A j \in bad : k <= j

RecognitionsOf(doc) ==
    {j \in DOMAIN doc.log : "call" \in DOMAIN doc.log[j]}

\* C14: once a multi-frame document has come to its first malformed frame i
\* it has failed with an error naming page i and has returned no text, and at
\* no time is a recognition started for frame i or a later frame.
C14_MalformedFrameRejected ==
    \A d \in DOMAIN docs :
        Route(docs[d].file) = "tiff" /\ FirstMalformed(docs[d]) # 0 =>
            /\ docs[d].result.t # "text"
            /\ \A j \in RecognitionsOf(docs[d]) :
                   docs[d].log[j].bitmap < FirstMalformed(docs[d])
            /\ docs[d].page <= FirstMalformed(docs[d])
            /\ (docs[d].page = FirstMalformed(docs[d]) =>
                    /\ Rejected(docs[d])
                    /\ docs[d].result = [t |-> "error", page |-> FirstMalformed(docs[d])])

\* C14 witness: frames 1 and 2 were recognized, frame 3 yields no pixel data
\* and the document fails naming page 3.
C14_Witness ==
    \E d \in DOMAIN docs :
        /\ Route(docs[d].file) = "tiff" /\ FirstMalformed(docs[d]) = 3
        /\ docs[d].file.frames[3].rgba = "empty"
        /\ Len(docs[d].allText) = 2 /\ docs[d].allText[1] # <<>>
        /\ docs[d].result = [t |-> "error", page |-> 3]

\* what one page puts on the log of its document
PassesOfPage(k) ==
    <<PassEvent(1, psmPrimary), RecognizeCall(k, 1), RecognizeDone(k, 1),
      PassEvent(2, psmFallback), RecognizeCall(k, 2), RecognizeDone(k, 2)>>
RECURSIVE LogOfPages(_, _, _, _)
LogOfPages(stage, k, n, paged) ==
    IF k > n THEN <<>>
    ELSE (IF paged THEN <<[stage |-> stage, page |-> k, totalPages |-> n]>> ELSE <<>>)
             \o PassesOfPage(k) \o LogOfPages(stage, k + 1, n, paged)

\* C15 (as stated): in every document, whatever its kind, the events and
\* recognitions come page by page in the order 1..N: the page-progress event
\* (k of N), the pass-1 event, the pass-1 recognition, the pass-2 event, the
\* pass-2 recognition on the same bitmap, all before anything of page k+1.
C15_PagesInOrder ==
    \A d \in DOMAIN docs :
        \E stage \in {"pdf", "tiff", "image"} :
            IsPrefix(docs[d].log,
                     LogOfPages(stage, 1, Len(docs[d].file.frames), TRUE))

\* C15 (amended): in a PDF or TIFF document the events and recognitions come
\* page by page in the order 1..N: the page-progress event (k of N), the
\* pass-1 event, the pass-1 recognition, the pass-2 event, the pass-2
\* recognition on the same bitmap, all before anything of page k+1, and a
\* document that returns has gone through all N pages; a single image gets
\* the two pass events and recognitions in that order and no page-progress event.
C15_PagesInOrderPaged ==
    \A d \in DOMAIN docs :
        LET whole == LogOfPages(Route(docs[d].file), 1, Len(docs[d].file.frames),
                                MultiPage(docs[d]))
        IN  /\ IsPrefix(docs[d].log, whole)
            /\ (Resolved(docs[d]) => docs[d].log = whole)

\* C15 witness: a PDF of several pages has returned.
C15_Witness ==
    \E d \in DOMAIN docs :
        /\ Route(docs[d].file) = "pdf" /\ Len(docs[d].file.frames) >= 2
        /\ Resolved(docs[d])
        /\ Len(docs[d].log) = 7 * Len(docs[d].file.frames)

\* the invocations with a recognition issued to engine w and not yet settled
InFlight(w) ==
    {d \in DOMAIN docs :
        docs[d].worker = w /\ docs[d].pc \in {"recognize1", "recognize2"}}
\* the segmentation modes an invocation asked for, one per recognition it issued
ModesAskedFor(doc) ==
    SubSeq(<<psmPrimary, psmFallback>>, 1, Len(doc.modes))

\* C16: at any moment at most one recognition is in flight on an engine, and
\* every recognition runs in the segmentation mode its own invocation set
\* just before it (no other invocation's configure step comes in between).
C16_OneCallInFlight ==
    /\ \A w \in DOMAIN engines : Cardinality(InFlight(w)) <= 1
    /\ \A d \in DOMAIN docs : docs[d].modes = ModesAskedFor(docs[d])

EnginesReleased ==
    Cardinality({t \in DOMAIN teardowns :
                    teardowns[t].pc = "resolved" /\ teardowns[t].worker # 0})
\* invocation d enters canvasToOcrText in this step
Enters(d) == docs[d].pc # "getWorker" /\ docs'[d].pc = "getWorker"

\* C17: no more engines are created than one plus the number of completed
\* teardowns; an invocation takes the cached engine if there is one, also
\* while that engine is still starting, and creates none, and if there is
\* none it creates a fresh one and caches it; a teardown that completes has
\* terminated the engine it found and cleared the cache; a teardown called
\* when no engine is cached returns at once and changes nothing.
C17_OneEngineUntilTeardown ==
    /\ [](Len(engines) <= 1 + EnginesReleased)
    /\ [][\A d \in DOMAIN docs :
              Enters(d) =>
                  /\ docs'[d].worker = workerPromise' /\ workerPromise' # 0
                  /\ IF workerPromise # 0
                     THEN workerPromise' = workerPromise /\ engines' = engines
                     ELSE /\ engines' = Append(engines, NewEngine)
                          /\ workerPromise' = Len(engines) + 1]_vars
    /\ [][\A t \in DOMAIN teardowns :
              /\ (teardowns[t].pc = "terminate" /\ teardowns'[t].pc = "resolved" =>
                      /\ workerPromise' = 0
                      /\ engines'[teardowns[t].worker].terminated)
              /\ (teardowns[t].pc = "idle" /\ teardowns'[t].pc # "idle" /\ workerPromise = 0 =>
                      /\ teardowns'[t].pc = "resolved"
                      /\ workerPromise' = 0 /\ engines' = engines /\ docs' = docs)]_vars

\* C17 witness: two invocations shared the first engine, taken while it was
\* starting or after; a teardown terminated it; a later invocation runs on a
\* second, fresh engine.
C17_Witness ==
    /\ Len(engines) = 2 /\ engines[1].terminated /\ ~engines[2].terminated
    /\ workerPromise = 2
    /\ \E t \in DOMAIN teardowns : teardowns[t] = [pc |-> "resolved", worker |-> 1]
    /\ \E d \in DOMAIN docs : docs[d].worker = 2 /\ docs[d].pc = "recognize1"
    /\ \E d \in DOMAIN docs : docs[d].worker = 1 /\ Resolved(docs[d])

\* the cached handle is one whose start-up failed
CachedFailed == workerPromise # 0 /\ engines[workerPromise].state = "rejected"
\* what a failed cached handle does to the calls that meet it: an invocation
\* takes it and rejects, a teardown takes it and rejects, neither starts an engine
FailsCallers ==
    /\ Len(engines') = Len(engines)
    /\ engines'[workerPromise].state = "rejected"
    /\ \A d \in DOMAIN docs :
           /\ Enters(d) => docs'[d].worker = workerPromise
           /\ (docs[d].pc = "getWorker" /\ docs[d].worker = workerPromise /\ docs'[d] # docs[d]
                   => Rejected(docs'[d]))
    /\ \A t \in DOMAIN teardowns :
           /\ (teardowns[t].pc = "idle" /\ teardowns'[t].pc # "idle"
                   => teardowns'[t] = [pc |-> "awaitWorker", worker |-> workerPromise])
           /\ (teardowns[t].worker = workerPromise /\ teardowns'[t] # teardowns[t]
                   => teardowns'[t].pc = "rejected")
\* teardown t took an engine other than the cached one and has not returned
HoldsEarlier(t) ==
    /\ teardowns[t].pc \in {"awaitWorker", "terminate"}
    /\ teardowns[t].worker # workerPromise

C22_ClearedByEarlierTeardown ==
    /\ Len(engines) >= 2 /\ engines[2].state = "rejected" /\ workerPromise = 0
    /\ \E d \in DOMAIN docs : docs[d].worker = 2

(***************************************************************************)
(* The structuring request (src/server/index.js: POST /api/structure).     *)
(* The field-extraction collaborator is groq.chat.completions.create; its  *)
(* answer is the content string of the first choice, or nothing.           *)
(***************************************************************************)
NoInputError == "No OCR text provided."
MissingKeyError == "Missing GROQ_API_KEY in env."
FailedError == "Failed to structure OCR output."

ErrorResponse(status, message) == [status |-> status, error |-> message]
StructuredResponse(value) == [status |-> 200, structured |-> value]

\* the text guard without the trim
NoText_EmptyOnly(text) == IsFalsy(text)

\* !text || !text.trim()  (line 161), for a text that has a trim method
NoText(text) == IsFalsy(text) \/ (text.t = "string" /\ Trim(text.s) = <<>>)

\* !process.env.GROQ_API_KEY  (line 221)
NoKey(key) == IsFalsy(key)

\* the handler from its entry to the await of the collaborator (lines 157-225)
BeforeCompletion(req) ==
    IF NoText(req.text) THEN ErrorResponse(400, NoInputError)
    ELSE IF req.text.t # "string" THEN ErrorResponse(500, FailedError)  \* text.trim is no function
    ELSE IF NoKey(req.key) THEN ErrorResponse(500, MissingKeyError)
    ELSE [status |-> 0]

InvoiceJson ==
    <<"{", "\"", "s", "u", "b", "t", "o", "t", "a", "l", "\"", ":", "1",
    "0", "0", ",", "\"", "t", "a", "x", "_", "r", "a", "t", "e", "\"",
    ":", "1", "3", "}">>
NullItemJson ==
    <<"{", "\"", "l", "i", "n", "e", "_", "i", "t", "e", "m", "s", "\"",
    ":", "[", "n", "u", "l", "l", "]", "}">>

\* JSON.parse on the contents below: the value, or a SyntaxError
JSONparse(s) ==
    CASE s = <<"{", "}">> -> [threw |-> FALSE,
                              value |-> Record(JsUndefined, JsUndefined, JsUndefined,
                                               JsUndefined, JsUndefined)]
      [] s = <<"n", "u", "l", "l">> -> [threw |-> FALSE, value |-> JsNull]
      [] s = InvoiceJson ->
             [threw |-> FALSE,
              value |-> Record(JsNum(100 * One), JsNum(13 * One), JsUndefined, JsUndefined,
                               JsUndefined)]
      [] s = NullItemJson ->
             [threw |-> FALSE,
              value |-> Record(JsUndefined, JsUndefined, JsUndefined, JsUndefined,
                               Array(<<JsNull>>))]
      [] OTHER -> [threw |-> TRUE, value |-> JsUndefined]

\* the content with an empty answer left as it is
RawOf_NoDefault(content) == IF content.t = "string" THEN content.s ELSE <<>>

\* completion.choices?.[0]?.message?.content || "{}"  (line 235)
RawOf(content) == IF IsFalsy(content) THEN <<"{", "}">> ELSE content.s

\* the handler after the collaborator has answered (lines 235-243)
AfterCompletion(content) ==
    LET parsed == JSONparse(RawOf(content))
        reconciled == reconcileMath(parsed.value)
    IN  IF parsed.threw \/ reconciled.threw
        THEN ErrorResponse(500, FailedError)
        ELSE StructuredResponse(reconciled.value)

\* req.body.text, req.body.fileName and process.env.GROQ_API_KEY
Requests ==
    [text : {JsUndefined, JsNull, JsNum(0), JsNum(5 * One)}
                \cup {JsStr(s) : s \in SeqsUpTo({"a", " ", "\n"}, MaxText)},
     fileName : {JsUndefined, JsStr(<<"a", ".", "p", "d", "f">>)},
     key : {JsUndefined, JsStr(<<>>), JsStr(<<"g", "s", "k">>)}]
\* what the collaborator answers
Contents ==
    {JsUndefined, JsNull, JsStr(<<>>), JsStr(<<" ">>), JsStr(<<"{", "}">>),
     JsStr(<<"n", "u", "l", "l">>), JsStr(<<"S", "o", "r", "r", "y">>),
     JsStr(InvoiceJson), JsStr(NullItemJson)}

InitRoute ==
    /\ request \in Requests
    /\ completion = JsUndefined
    /\ response = [status |-> 0]
    /\ calls = 0
    /\ routePc = "received"
    /\ RecIdle /\ ScoreIdle /\ OcrIdle /\ ImgIdle

\* app.post("/api/structure", ...): up to a response or the call of the collaborator
PostStructure ==
    /\ routePc = "received"
    /\ \E r \in {BeforeCompletion(request)} :
           IF r.status # 0
           THEN response' = r /\ calls' = calls /\ routePc' = "responded"
           ELSE response' = response /\ calls' = calls + 1 /\ routePc' = "awaiting"
    /\ UNCHANGED <<request, completion, notRoute>>

\* await groq.chat.completions.create(...) resolved
CompletionResolved ==
    /\ routePc = "awaiting"
    /\ \E content \in Contents :
           /\ completion' = content
           /\ \E r \in {AfterCompletion(content)} : response' = r
    /\ routePc' = "responded"
    /\ UNCHANGED <<request, calls, notRoute>>

\* await groq.chat.completions.create(...) rejected: the catch of line 240
CompletionRejected ==
    /\ routePc = "awaiting"
    /\ response' = ErrorResponse(500, FailedError)
    /\ routePc' = "failed"
    /\ UNCHANGED <<request, completion, calls, notRoute>>

NextRoute == PostStructure \/ CompletionResolved \/ CompletionRejected

SpecRoute == InitRoute /\ [][NextRoute]_vars

\* a text that is missing, empty or white space only
IsBlank(text) ==
    \/ text.t \in {"undefined", "null"}
    \/ (text.t = "string" /\ \A i \in 1..Len(text.s) : text.s[i] \in WhiteSpace)
KeyAbsent == request.key.t = "undefined" \/ request.key = JsStr(<<>>)
Answered == routePc \in {"responded", "failed"}

\* C18: a request with a missing, empty or whitespace-only text is answered
\* with the 'no input' error; a request with a text, made while the key is
\* absent, is answered with the configuration error, a different message; in
\* both cases the collaborator is not called; it is called exactly when the
\* text is a non-blank string and the key is present.
C18_RequestGuards ==
    /\ routePc # "received" =>
           /\ (IsBlank(request.text) =>
                   response = ErrorResponse(400, NoInputError) /\ calls = 0)
           /\ (request.text.t = "string" /\ ~IsBlank(request.text) /\ KeyAbsent =>
                   response = ErrorResponse(500, MissingKeyError) /\ calls = 0)
           /\ (calls > 0 <=>
                   request.text.t = "string" /\ ~IsBlank(request.text) /\ ~KeyAbsent)
    /\ calls <= 1
    /\ NoInputError # MissingKeyError /\ MissingKeyError # FailedError

\* C18 witness: a whitespace-only text was refused although the key is there.
C18_Witness ==
    /\ Answered /\ ~KeyAbsent
    /\ request.text.t = "string" /\ request.text.s # <<>> /\ IsBlank(request.text)
    /\ response = ErrorResponse(400, NoInputError) /\ calls = 0

\* the collaborator's answer is empty, or it is no JSON text
EmptyOrInvalid(content) ==
    \/ content.t \in {"undefined", "null"}
    \/ content.s = <<>>
    \/ JSONparse(content.s).threw

\* C19: a request whose collaborator answered with empty output or with
\* output that is not valid JSON ends in an {error} response, never in a
\* {structured} one.
C19_NeverDefaulted ==
    routePc = "responded" /\ calls > 0 /\ EmptyOrInvalid(completion) =>
        /\ "error" \in DOMAIN response
        /\ "structured" \notin DOMAIN response

(***************************************************************************)
(* The preprocessor (src/unnamed/part_000: preprocessCanvas), from the     *)
(* pixels of the scaled canvas on.  An ImageData is its width, its height  *)
(* and its data: the bytes R, G, B, A of each pixel, row by row, indexed   *)
(* from 0 as in the code.                                                  *)
(***************************************************************************)
ImageData(w, h, data) == [width |-> w, height |-> h, data |-> data]

\* (r + g + b) / 3 >= threshold after grayscale and contrast (lines 76-94),
\* with both sides multiplied out to whole numbers
AboveThreshold(r, g, b, opt) ==
    IF opt.grayscale
    THEN (299 * r + 587 * g + 114 * b) * (100 + opt.contrast) - 128000 * opt.contrast
             >= 100000 * opt.threshold
    ELSE (r + g + b) * (100 + opt.contrast) - 384 * opt.contrast >= 300 * opt.threshold

\* the loop of lines 80-99: every pixel black or white, alpha as it was
Binarize(img, opt) ==
    [img EXCEPT !.data =
        [i \in DOMAIN img.data |->
            IF i % 4 = 3 THEN img.data[i]
            ELSE LET p == 4 * (i \div 4)
                     white == AboveThreshold(img.data[p], img.data[p + 1], img.data[p + 2], opt)
                 IN  IF white # opt.invert THEN 255 ELSE 0]]

\* ctx.putImageData followed by ctx.getImageData (lines 101, 105): the canvas
\* keeps colours multiplied by alpha
ThroughCanvas(img) ==
    [img EXCEPT !.data =
        [i \in DOMAIN img.data |->
            LET a == img.data[4 * (i \div 4) + 3]
            IN  IF i % 4 = 3 THEN a
                ELSE IF a = 0 THEN 0
                ELSE RoundHalfUp(RoundHalfUp(img.data[i] * a, 255) * 255, a)]]

\* const idx = (x, y) => (y * w + x) * 4  (line 110)
idx(x, y, w) == (y * w + x) * 4

\* Math.max(0, Math.min(255, v))  (line 123)
Clamp(v) == IF v < 0 THEN 0 ELSE IF v > 255 THEN 255 ELSE v

\* lines 116-121: five times the pixel's channel less its four neighbours
Kernel(src, x, y, ch) ==
    LET w == src.width
    IN  5 * src.data[idx(x, y, w) + ch]
        - src.data[idx(x - 1, y, w) + ch]
        - src.data[idx(x + 1, y, w) + ch]
        - src.data[idx(x, y - 1, w) + ch]
        - src.data[idx(x, y + 1, w) + ch]

\* lines 105-127: out = ctx.createImageData(w, h), all bytes 0, then the
\* kernel written to the pixels with 1 <= x < w - 1 and 1 <= y < h - 1
Sharpen(src) ==
    LET w == src.width
        h == src.height
    IN  [src EXCEPT !.data =
            [i \in DOMAIN src.data |->
                LET x == (i \div 4) % w
                    y == (i \div 4) \div w
                    ch == i % 4
                IN  IF x >= 1 /\ x < w - 1 /\ y >= 1 /\ y < h - 1
                    THEN IF ch = 3 THEN src.data[i] ELSE Clamp(Kernel(src, x, y, ch))
                    ELSE 0]]

MaxSide == 3                   \* largest width and height of the scaled canvas

\* the colours found on the scaled canvas: dark ink and light paper
Colours == {<<40, 40, 40>>, <<230, 200, 250>>}
\* the options the three callers pass (lines 210, 289, 321), and the
\* function's other branches: inverted, not grayscale, not sharpened
Options ==
    {[contrast |-> 35, threshold |-> 165, grayscale |-> TRUE, sharpen |-> TRUE, invert |-> FALSE],
     [contrast |-> 40, threshold |-> 165, grayscale |-> TRUE, sharpen |-> TRUE, invert |-> FALSE],
     [contrast |-> 35, threshold |-> 165, grayscale |-> TRUE, sharpen |-> TRUE, invert |-> TRUE],
     [contrast |-> 35, threshold |-> 165, grayscale |-> FALSE, sharpen |-> FALSE, invert |-> FALSE]}

\* ctx.getImageData(0, 0, w, h) after the scaled drawing (lines 57-73), for
\* canvases of up to side by side pixels
Drawn(side) ==
    UNION {{ImageData(w, h, [i \in 0..(4 * w * h - 1) |->
                                IF i % 4 = 3 THEN a ELSE px[i \div 4][(i % 4) + 1]]) :
               px \in [0..(w * h - 1) -> Colours], a \in {255, 128}} :
           w \in 1..side, h \in 1..side}

InitSharpen ==
    /\ canvas \in [img : Drawn(MaxSide), opt : Options]
    /\ binarized = canvas.img
    /\ imgPc = "drawn"
    /\ RecIdle /\ ScoreIdle /\ OcrIdle /\ RouteIdle

\* lines 75-101: grayscale, contrast, threshold, ctx.putImageData(img, 0, 0)
BinarizeCanvas ==
    /\ imgPc = "drawn"
    /\ \E img \in {ThroughCanvas(Binarize(canvas.img, canvas.opt))} :
           /\ canvas' = [canvas EXCEPT !.img = img]
           /\ binarized' = img
    /\ imgPc' = "binarized"
    /\ UNCHANGED notImg

\* lines 104-131 with sharpen set: the kernel, ctx.putImageData(out, 0, 0), return
SharpenCanvas ==
    /\ imgPc = "binarized" /\ canvas.opt.sharpen
    /\ \E img \in {ThroughCanvas(Sharpen(canvas.img))} :
           canvas' = [canvas EXCEPT !.img = img]
    /\ imgPc' = "returned"
    /\ UNCHANGED <<binarized, notImg>>

\* lines 104, 131 with sharpen not set: return canvas
ReturnCanvas ==
    /\ imgPc = "binarized" /\ ~canvas.opt.sharpen
    /\ imgPc' = "returned"
    /\ UNCHANGED <<canvas, binarized, notImg>>

NextSharpen == BinarizeCanvas \/ SharpenCanvas \/ ReturnCanvas

SpecSharpen == InitSharpen /\ [][NextSharpen]_vars

(***************************************************************************)
(* Claim about the sharpening step                                         *)
(***************************************************************************)
Column(img, i) == (i \div 4) % img.width
Row(img, i) == (i \div 4) \div img.width
OnBorder(img, i) ==
    \/ Column(img, i) = 0 \/ Column(img, i) = img.width - 1
    \/ Row(img, i) = 0 \/ Row(img, i) = img.height - 1
Sharpened == imgPc = "returned" /\ canvas.opt.sharpen

\* C20: when sharpen is enabled, every pixel of the first and last row and
\* column of the returned canvas has the R, G, B and alpha it had after
\* binarization, whatever the size of the bitmap (1x1 and 2x2 included), and
\* every other pixel has the kernel's result clamped to 0..255.
C20_BorderKept ==
    Sharpened =>
        \A i \in DOMAIN binarized.data :
            IF OnBorder(binarized, i)
            THEN canvas.img.data[i] = binarized.data[i]
            ELSE i % 4 # 3 =>
                     canvas.img.data[i] =
                         Clamp(Kernel(binarized, Column(binarized, i), Row(binarized, i), i % 4))

\* what the code does to the border: every byte of it is 0 on return
C20_BorderCleared ==
    Sharpened =>
        \A i \in DOMAIN binarized.data :
            OnBorder(binarized, i) => canvas.img.data[i] = 0
\* the rest of the statement, on its own: the pixels inside get the kernel
C20_InteriorSharpened ==
    Sharpened =>
        \A i \in DOMAIN binarized.data :
            (~OnBorder(binarized, i) /\ i % 4 # 3) =>
                canvas.img.data[i] =
                    Clamp(Kernel(binarized, Column(binarized, i), Row(binarized, i), i % 4))

====
